---- MODULE Spec2Model ----
(***************************************************************************)
(* Model of the Dealls mentoring UI test suite: the page-object layer      *)
(* (BasePage, MentoringPage) and the scenarios built on it.  The browser   *)
(* page is the environment: what it shows is drawn from bounded sets, the  *)
(* driver calls the page objects make are recorded in a log, and each      *)
(* page-object method is one action that runs the whole method.            *)
(*                                                                         *)
(* Strings the code inspects (titles, URLs, keywords, typed text) are      *)
(* sequences of one-character strings, so that trim, toLowerCase,          *)
(* includes and startsWith are computed rather than assumed.  An error is  *)
(* the chain of its message templates, outermost first: the code builds    *)
(* messages as `<template>: ${error}`, so the text of a wrapped error      *)
(* contains the text of its cause.                                         *)
(***************************************************************************)
EXTENDS Integers, Sequences, FiniteSets, TLC

VARIABLES page, last, test

vars == <<page, last, test>>

----------------------------------------------------------------------------
(* Bounds of the model *)

\* most candidate selectors of one list that a build shows at the same time
MaxVisible == 2
\* most elements a card selector matches
MaxCards == 2
\* longest keyword / typed text
MaxLen == 2

----------------------------------------------------------------------------
(* String helpers: String.prototype.{trim, toLowerCase, includes, startsWith} *)

Upper == <<"A","B","C","D","E","F","G","H","I","J","K","L","M",
           "N","O","P","Q","R","S","T","U","V","W","X","Y","Z">>
LowerOf == <<"a","b","c","d","e","f","g","h","i","j","k","l","m",
             "n","o","p","q","r","s","t","u","v","w","x","y","z">>

LowerChar(c) ==
    IF \E i \in 1..26 : Upper[i] = c
    THEN LowerOf[CHOOSE i \in 1..26 : Upper[i] = c]
    ELSE c

toLowerCase(s) == [i \in 1..Len(s) |-> LowerChar(s[i])]

includes(s, sub) ==
    \E i \in 0..(Len(s) - Len(sub)) : SubSeq(s, i + 1, i + Len(sub)) = sub

startsWith(s, pre) ==
    Len(pre) <= Len(s) /\ SubSeq(s, 1, Len(pre)) = pre

WhiteSpace == {" ", "\t", "\n"}

RECURSIVE trimStart(_)
trimStart(s) ==
    IF s # <<>> /\ Head(s) \in WhiteSpace THEN trimStart(Tail(s)) ELSE s

RECURSIVE trimEnd(_)
trimEnd(s) ==
    IF s # <<>> /\ s[Len(s)] \in WhiteSpace
    THEN trimEnd(SubSeq(s, 1, Len(s) - 1)) ELSE s

trim(s) == trimEnd(trimStart(s))

----------------------------------------------------------------------------
(* Results of a method run: the error chain (<<>> = returned normally),    *)
(* the driver calls issued in order, and the returned value.               *)

NoErr == <<>>

Call(c, a) == [c |-> c, a |-> a]

Done(log) == [err |-> NoErr, log |-> log, res |-> 0]

Thrown(err, log) == [err |-> err, log |-> log, res |-> 0]

Returned(res, log) == [err |-> NoErr, log |-> log, res |-> res]

\* sequential composition: r2 runs only if r1 returned normally
Then(r1, r2) ==
    IF r1.err # NoErr THEN r1
    ELSE [err |-> r2.err, log |-> r1.log \o r2.log, res |-> r2.res]

\* try { r } catch (error) { throw new Error(`<template>: ${error}`) }
Wrap(template, r) ==
    IF r.err = NoErr THEN r ELSE [r EXCEPT !.err = <<template>> \o r.err]

\* try { r } catch { /* continue */ }
Swallow(r) == [r EXCEPT !.err = NoErr]

\* a driver call that throws when the fault injected into this run hits it
Driver(c, a, f, kind) ==
    IF f = kind THEN Thrown(<<"DriverError">>, <<Call(c, a)>>)
    ELSE Done(<<Call(c, a)>>)

----------------------------------------------------------------------------
(* The browser page as the page objects see it.                            *)
(*   url, title   what page.url() and page.title() return                  *)
(*   body         number of ' ' in the body text, -1 when textContent      *)
(*                returns null                                             *)
(*   visible      locators whose (first) matching element is visible       *)
(*                within the timeout a wait is given                       *)
(*   multi        locators that match more than one element: a strict      *)
(*                locator call on one of them throws instead of resolving  *)
(*   stuck        loading indicators that stay visible past 15000 ms       *)
(*   count        elements page.$$ returns per selector, -1 when it throws *)
(*   cards        elements the mentorCards locator matches                 *)
(*   redirect     path the build redirects /mentoring to, <<>> for none     *)
(*   text         what textContent() of the heading returns, NullText for  *)
(*                null                                                     *)
(*   fieldKind    how the search field treats what is filled into it       *)
(*   value        the field's current value                                *)

\* BasePage.constructor, PLAYWRIGHT_BASE_URL unset
baseURL == <<"h","t","t","p","s",":","/","/","j","o","b","-","p","o","r","t","a","l",
             "-","u","s","e","r","-","d","e","v","-","s","k","x","7","z","w","4","4",
             "d","q","-","e","t",".","a",".","r","u","n",".","a","p","p">>

MentoringPath == <<"/","m","e","n","t","o","r","i","n","g">>
HttpPrefix == <<"h","t","t","p">>

\* MentoringPage constructor: the locators the methods below use
pageTitle == "h1, [data-testid=page-title], .page-title, .hero-title"
loginButton == "button:has-text(Masuk), a:has-text(Masuk), button:has-text(Login), a:has-text(Login), [data-testid=login]"
errorMessage == ".error-message, .alert-error, .error, [data-testid=error-message]"
mentorCards == ".mentor-card, .mentor-item, [data-testid=mentor-card], .card:has(.mentor), .profile-card"

searchSelectors ==
    << "input[type=search]", "input[placeholder*=search i]",
       "input[placeholder*=cari i]", "input[placeholder*=mentor i]",
       ".search-input", "[data-testid*=search]", "input[name*=search]" >>

searchButtonSelectors ==
    << "button[type=submit]", "button:has-text(Search)", "button:has-text(Cari)",
       ".search-button", "[data-testid*=search-button]" >>

loadingSelectors ==
    << ".loading", ".spinner", ".loader", "[data-loading]",
       ".skeleton", ".shimmer", "[class*=loading]" >>

cardSelectors ==
    << ".mentor-card", ".mentor-item", ".card", ".profile-card",
       "[data-testid*=mentor]", ".mentor", "[class*=mentor]",
       ".grid > div", ".flex > div", "[class*=grid] > div",
       ".container > div", ".content > div" >>

noResultsSelectors ==
    << ".no-results", ".empty-state", "[data-testid=no-results]",
       ".empty", ".not-found", "[class*=empty]" >>

contentSelectors ==
    << ".mentor-card", ".mentor-item", ".card", ".profile-card",
       "[data-testid*=mentor]", ".mentor", "[class*=mentor]",
       ".grid", ".flex", "[class*=grid]", "[class*=flex]",
       "main", ".main", ".content", ".container" >>

Range(s) == {s[i] : i \in 1..Len(s)}

QuerySelectors == Range(cardSelectors) \cup Range(contentSelectors)

\* minimum body word count of verifyPageLoaded
MinWords == 50

----------------------------------------------------------------------------
(* BasePage.  p is the page, f the fault injected into this run: the kind  *)
(* of driver call that throws when it is reached ("none" for no fault).    *)

fullUrl(url) == IF startsWith(url, HttpPrefix) THEN url ELSE baseURL \o url

\* options?.waitUntil || 'networkidle' ("" for an option left undefined)
WaitUntil(option) == IF option = "" THEN "networkidle" ELSE option

\* `Failed to navigate to ${url}: ${error}`: the URL the message names
NavigationErrorUrl(url) == url

\* goto not awaiting the navigation: it returns whether or not the page loads
gotoUnawaited(url, option, f) == Swallow(Driver("goto", WaitUntil(option), f, "goto"))

goto(url, option, f) ==
    Wrap("FailedToNavigate", Driver("goto", WaitUntil(option), f, "goto"))

\* how locator.waitFor({ state: 'visible', timeout }) ends on page p
WaitOutcome(p, locator) ==
    IF locator \in p.multi THEN "strict"
    ELSE IF locator \in p.visible THEN "visible"
    ELSE "timeout"

waitForElement(p, locator, f) ==
    IF WaitOutcome(p, locator) = "visible" /\ f # "waitFor"
    THEN Done(<<Call("waitFor", locator)>>)
    ELSE Thrown(<<"ElementNotFound">>, <<Call("waitFor", locator)>>)

\* clickElement without the wait for the element
clickElementUnwaited(p, locator, f) ==
    Wrap("FailedToClick", Driver("click", locator, f, "click"))

clickElement(p, locator, f) ==
    Wrap("FailedToClick",
         Then(waitForElement(p, locator, f), Driver("click", locator, f, "click")))

\* longest value a length-limited field keeps
FieldMaxLen == 1

\* what the field holds after fill(text)
Filled(kind, text) ==
    CASE kind = "plain"  -> text
      [] kind = "trims"  -> trim(text)
      [] kind = "maxlen" -> SubSeq(text, 1, IF Len(text) < FieldMaxLen THEN Len(text) ELSE FieldMaxLen)
      [] kind = "upper"  -> [i \in 1..Len(text) |->
                               IF \E k \in 1..26 : LowerOf[k] = text[i]
                               THEN Upper[CHOOSE k \in 1..26 : LowerOf[k] = text[i]]
                               ELSE text[i]]

\* typeText without the read-back comparison
VerifyTypedSkipped(inputValue, text) == Done(<<>>)

VerifyTyped(inputValue, text) ==
    IF inputValue # text THEN Thrown(<<"TextVerificationFailed">>, <<>>) ELSE Done(<<>>)

typeText(p, locator, text, f) ==
    Wrap("FailedToType",
         Then(waitForElement(p, locator, f),
         Then(Driver("clear", locator, f, "clear"),
         Then(Driver("fill", locator, f, "fill"),
         Then(Driver("inputValue", locator, f, "inputValue"),
              VerifyTyped(Filled(p.fieldKind, text), text))))))

\* how far a run got, read off its driver calls: call c was issued and returned
Completed(r, c) ==
    \E i \in 1..Len(r.log) :
        r.log[i].c = c /\ ~(i = Len(r.log) /\ r.err # NoErr /\ r.err[Len(r.err)] = "DriverError")

\* the field's value after a run r that typed text into it
TypedValue(p, r, text) ==
    IF Completed(r, "fill") THEN Filled(p.fieldKind, text)
    ELSE IF Completed(r, "clear") THEN <<>>
    ELSE p.value

\* a catch that handles the timeout only: any other failure of the wait propagates
ProbeCatchTimeoutOnly(outcome, log) ==
    IF outcome = "strict" THEN Thrown(<<"DriverError">>, log)
    ELSE Returned(outcome = "visible", log)

\* try { await <wait>; return true } catch { return false }
ProbeCatch(outcome, log) == Returned(outcome = "visible", log)

\* isElementVisible without its catch: a failed wait propagates
isElementVisibleUncaught(p, locator) ==
    IF WaitOutcome(p, locator) = "visible" THEN Returned(TRUE, <<Call("waitFor", locator)>>)
    ELSE Thrown(<<"DriverError">>, <<Call("waitFor", locator)>>)

isElementVisible(p, locator) ==
    ProbeCatch(WaitOutcome(p, locator), <<Call("waitFor", locator)>>)

\* locator.textContent() returning null
NullText == <<"null">>

\* the returned text without trim()
TextOrEmptyUntrimmed(text) == IF text = NullText THEN <<>> ELSE text

\* text?.trim() || ''
TextOrEmpty(text) ==
    IF text = NullText THEN <<>>
    ELSE IF trim(text) = <<>> THEN <<>> ELSE trim(text)

getElementText(p, locator, f) ==
    Wrap("FailedToGetText",
         Then(waitForElement(p, locator, f),
         Then(Driver("textContent", locator, f, "textContent"),
              Returned(TextOrEmpty(p.text), <<>>))))

getPageTitle(f) == Wrap("FailedToGetTitle", Driver("title", "", f, "title"))

waitForPageLoad(f) ==
    Wrap("PageFailedToLoad", Driver("waitForLoadState", "networkidle", f, "loadState"))

wait(ms, f) == Driver("waitForTimeout", ms, f, "timeout")

\* verifyCurrentUrl without the assertion
verifyCurrentUrlUnchecked(p, expectedPath) == Done(<<>>)

verifyCurrentUrl(p, expectedPath) ==
    IF includes(p.url, expectedPath) THEN Done(<<>>)
    ELSE Thrown(<<"ExpectToContain">>, <<>>)

----------------------------------------------------------------------------
(* MentoringPage *)

\* the title check without toLowerCase
TitleIndicatesMentoringCaseSensitive(title) ==
    \/ includes(title, <<"m","e","n","t","o","r","i","n","g">>)
    \/ includes(title, <<"m","e","n","t","o","r">>)
    \/ includes(title, <<"k","a","r","i","r">>)

TitleIndicatesMentoring(title) ==
    LET titleLower == toLowerCase(title)
    IN  \/ includes(titleLower, <<"m","e","n","t","o","r","i","n","g">>)
        \/ includes(titleLower, <<"m","e","n","t","o","r">>)
        \/ includes(titleLower, <<"k","a","r","i","r">>)

\* verifyPageLoaded without the throw on a foreign title
CheckTitleLogged(title) == Done(<<>>)

CheckTitle(title) ==
    IF ~TitleIndicatesMentoring(title) THEN Thrown(<<"TitleMismatch">>, <<>>)
    ELSE Done(<<>>)

wordCount(p) == IF p.body = -1 THEN 0 ELSE p.body + 1

CheckWords(p) ==
    IF wordCount(p) < MinWords THEN Thrown(<<"InsufficientContent">>, <<>>)
    ELSE Done(<<>>)

\* for (const selector of loadingSelectors) try { if visible, wait hidden } catch {}
RECURSIVE DrainLoading(_, _, _)
DrainLoading(p, sels, probe) ==
    IF sels = <<>> THEN Done(<<>>)
    ELSE LET s == Head(sels)
             one == IF WaitOutcome(p, s) = "visible"
                    THEN Swallow(Then(Done(<<Call(probe, s)>>),
                                      IF s \in p.stuck
                                      THEN Thrown(<<"DriverError">>, <<Call("waitForHidden", s)>>)
                                      ELSE Done(<<Call("waitForHidden", s)>>)))
                    ELSE Done(<<Call(probe, s)>>)
         IN  Then(one, DrainLoading(p, Tail(sels), probe))

\* for (const selector of contentSelectors) { $$; if (length > 0) break }
RECURSIVE DetectContent(_, _)
DetectContent(p, sels) ==
    IF sels = <<>> THEN Done(<<>>)
    ELSE LET s == Head(sels)
         IN  IF p.count[s] = -1 THEN Thrown(<<"DriverError">>, <<Call("$$", s)>>)
             ELSE IF p.count[s] > 0 THEN Done(<<Call("$$", s)>>)
             ELSE Then(Done(<<Call("$$", s)>>), DetectContent(p, Tail(sels)))

\* verifyPageLoaded reloading the page before it checks it
verifyPageLoadedReloading(p, f) ==
    Then(Driver("reload", "", f, "reload"),
    Then(waitForElement(p, pageTitle, f),
    Then(getPageTitle(f),
    Then(CheckTitle(p.title),
    Then(verifyCurrentUrl(p, MentoringPath),
    Then(Driver("waitForLoadState", "domcontentloaded", f, "loadState"),
    Then(Driver("waitForLoadState", "networkidle", f, "loadState"),
    Then(DrainLoading(p, loadingSelectors, "isVisible"),
    Then(wait("3000", f),
    Then(Driver("textContent", "body", f, "textContent"),
    Then(CheckWords(p),
         DetectContent(p, contentSelectors))))))))))))

verifyPageLoaded(p, f) ==
    Then(waitForElement(p, pageTitle, f),
    Then(getPageTitle(f),
    Then(CheckTitle(p.title),
    Then(verifyCurrentUrl(p, MentoringPath),
    Then(Driver("waitForLoadState", "domcontentloaded", f, "loadState"),
    Then(Driver("waitForLoadState", "networkidle", f, "loadState"),
    Then(DrainLoading(p, loadingSelectors, "isVisible"),
    Then(wait("3000", f),
    Then(Driver("textContent", "body", f, "textContent"),
    Then(CheckWords(p),
         DetectContent(p, contentSelectors)))))))))))

\* the page goto lands on: the build served, at the requested URL or at
\* the path the build redirects to
Landed(build, url) ==
    [build EXCEPT !.url = IF build.redirect = <<>> THEN fullUrl(url)
                          ELSE baseURL \o build.redirect]

navigateToMentoring(build, f) ==
    Then(goto(MentoringPath, "", f),
    Then(waitForPageLoad(f),
         verifyPageLoaded(Landed(build, MentoringPath), f)))

\* the count of the first selector that matches anything, not the maximum
RECURSIVE MaxCountFirstMatch(_, _, _)
MaxCountFirstMatch(p, sels, maxCount) ==
    IF sels = <<>> THEN maxCount
    ELSE IF p.count[Head(sels)] > 0 THEN p.count[Head(sels)]
    ELSE MaxCountFirstMatch(p, Tail(sels), maxCount)

\* for (const selector of cardSelectors) try { $$; keep the maximum } catch {}
RECURSIVE MaxCount(_, _, _)
MaxCount(p, sels, maxCount) ==
    IF sels = <<>> THEN maxCount
    ELSE LET n == p.count[Head(sels)]
         IN  MaxCount(p, Tail(sels), IF n > maxCount THEN n ELSE maxCount)

QueryAll(sels) == [i \in 1..Len(sels) |-> Call("$$", sels[i])]

\* the resolution loop without its break: the last visible candidate wins
RECURSIVE ResolveNoBreak(_, _)
ResolveNoBreak(p, sels) ==
    IF sels = <<>> THEN Returned("", <<>>)
    ELSE LET r == isElementVisible(p, Head(sels))
             rest == ResolveNoBreak(p, Tail(sels))
         IN  IF r.err # NoErr THEN r
             ELSE IF r.res /\ rest.res = "" THEN Returned(Head(sels), r.log \o rest.log)
             ELSE Then(r, rest)

\* for (const selector of sels) if (await this.isElementVisible(selector)) { ...; break }
\* res is the first selector found visible, "" when the list is exhausted
RECURSIVE Resolve(_, _)
Resolve(p, sels) ==
    IF sels = <<>> THEN Returned("", <<>>)
    ELSE LET r == isElementVisible(p, Head(sels))
         IN  IF r.err # NoErr THEN r
             ELSE IF r.res THEN Returned(Head(sels), r.log)
             ELSE Then(r, Resolve(p, Tail(sels)))

\* getMentorCount treating an empty page as an error
getMentorCountRequiringCards(p, f) ==
    LET maxCount == MaxCount(p, cardSelectors, 0)
    IN  Then(wait("2000", f),
        Then(Done(QueryAll(cardSelectors)),
             IF maxCount > 0 THEN Returned(maxCount, <<>>)
             ELSE Thrown(<<"NoMentorCards">>, <<>>)))

getMentorCount(p, f) ==
    LET maxCount == MaxCount(p, cardSelectors, 0)
        noResults == Resolve(p, noResultsSelectors)
    IN  Then(wait("2000", f),
        Then(Done(QueryAll(cardSelectors)),
             IF maxCount > 0 THEN Returned(maxCount, <<>>)
             ELSE Then(noResults,
                       Returned(IF noResults.res # "" THEN 0 ELSE maxCount, <<>>))))

\* locator.nth(index)
nth(locator, index) == locator \o " >> nth=" \o ToString(index)

\* the match nth(index) resolves to, counted from the end when index < 0
NthExists(p, index) ==
    IF index >= 0 THEN index < p.cards ELSE p.cards + index >= 0

\* page p with the cards its mentorCards locator matches as visible elements
WithCards(p, index) ==
    IF NthExists(p, index)
    THEN [p EXCEPT !.visible = @ \cup {nth(mentorCards, index)}] ELSE p

scrollToElement(p, locator, f) ==
    Wrap("FailedToScroll",
         IF locator \in p.visible
         THEN Driver("scrollIntoViewIfNeeded", locator, f, "scroll")
         ELSE Thrown(<<"DriverError">>, <<Call("scrollIntoViewIfNeeded", locator)>>))

clickMentorCard(p, index, f) ==
    LET counted == getMentorCount(p, f)
        mentorCount == counted.res
        mentorCard == nth(mentorCards, index)
    IN  Then(counted,
             IF mentorCount = 0 THEN Thrown(<<"NoCardsToClick">>, <<>>)
             ELSE IF index >= mentorCount THEN Thrown(<<"IndexOutOfRange">>, <<>>)
             ELSE Then(scrollToElement(WithCards(p, index), mentorCard, f),
                  Then(clickElement(WithCards(p, index), mentorCard, f),
                       Done(<<Call("waitForTimeout", "2000")>>))))

\* the card counts the page shows once a search or filter has been submitted:
\* n result cards under '.mentor-card'
Results(p, n) ==
    [p EXCEPT !.count = [s \in QuerySelectors |->
                            IF s = ".mentor-card" THEN n ELSE p.count[s]]]

\* the delay between the two count samples, and of the additional wait
SettleDelay == 2000

\* the closing branch waiting whether or not the counts agree
SettleAgainUnconditional(beforeCount, afterCount, f) == wait("2000", f)

\* if (beforeCount === afterCount) { log } else { log; await this.wait(2000) }
SettleAgain(beforeCount, afterCount, f) ==
    IF beforeCount = afterCount THEN Done(<<>>) ELSE wait("2000", f)

\* waitForSearchResults taking a third sample after the additional wait
waitForSearchResultsResampling(p1, p2, f) ==
    LET beforeCount == getMentorCount(p1, f)
        afterCount == getMentorCount(p2, f)
    IN  Then(DrainLoading(p1, loadingSelectors, "waitFor"),
        Then(wait("3000", f),
        Then(beforeCount,
        Then(wait("2000", f),
        Then(afterCount,
             IF beforeCount.res = afterCount.res THEN Done(<<>>)
             ELSE Then(wait("2000", f), getMentorCount(p2, f)))))))

\* p1, p2: the page at the first and at the second count sample
waitForSearchResults(p1, p2, f) ==
    LET beforeCount == getMentorCount(p1, f)
        afterCount == getMentorCount(p2, f)
    IN  Then(DrainLoading(p1, loadingSelectors, "waitFor"),
        Then(wait("3000", f),
        Then(beforeCount,
        Then(wait("2000", f),
        Then(afterCount,
             SettleAgain(beforeCount.res, afterCount.res, f))))))

\* the keyword guard without trim()
KeywordEmptyUntrimmed(keyword) == keyword = <<>>

KeywordEmpty(keyword) == keyword = <<>> \/ Len(trim(keyword)) = 0

\* click the first visible search button, else press Enter in the input
\* a submit that presses Enter after the button click as well
SubmitSearchBoth(p, searchInput, f) ==
    LET button == Resolve(p, searchButtonSelectors)
    IN  Then(button,
        Then(IF button.res # "" THEN clickElement(p, button.res, f) ELSE Done(<<>>),
             Driver("press", searchInput, f, "press")))

SubmitSearch(p, searchInput, f) ==
    LET button == Resolve(p, searchButtonSelectors)
    IN  Then(button,
             IF button.res # "" THEN clickElement(p, button.res, f)
             ELSE Driver("press", searchInput, f, "press"))

searchMentors(p, keyword, f, n1, n2) ==
    IF KeywordEmpty(keyword) THEN Thrown(<<"KeywordEmpty">>, <<>>)
    ELSE LET searchInput == Resolve(p, searchSelectors)
         IN  Then(waitForPageLoad(f),
             Then(searchInput,
                  IF searchInput.res = "" THEN Thrown(<<"SearchInputNotAvailable">>, <<>>)
                  ELSE Then(typeText(p, searchInput.res, keyword, f),
                       Then(SubmitSearch(p, searchInput.res, f),
                            waitForSearchResults(Results(p, n1), Results(p, n2), f)))))

\* the page after searchMentors: the typed value, and the new results if
\* the search was submitted
AfterSearch(p, r, keyword, n2) ==
    LET typed == [p EXCEPT !.value = TypedValue(p, r, keyword)]
    IN  IF Completed(r, "click") \/ Completed(r, "press") THEN Results(typed, n2) ELSE typed

catITEng == <<"I","T"," ","&"," ","E","n","g">>
catTechnology == <<"T","e","c","h","n","o","l","o","g","y">>
catEngineering == <<"E","n","g","i","n","e","e","r","i","n","g">>
catBusiness == <<"B","u","s","i","n","e","s","s">>
catNonexistent == <<"N","o","n","e","x","i","s","t","e","n","t">>

\* page.locator([`button:has-text("${category}")`, ...].join(', '))
categoryButton(category) ==
    CASE category = catITEng -> "button:has-text(IT & Eng), ..."
      [] category = catTechnology -> "button:has-text(Technology), ..."
      [] category = catEngineering -> "button:has-text(Engineering), ..."
      [] category = catBusiness -> "button:has-text(Business), ..."
      [] category = catNonexistent -> "button:has-text(Nonexistent), ..."
      [] OTHER -> "button:has-text(?), ..."

CategoryEmpty(category) == category = <<>> \/ Len(trim(category)) = 0

\* filterByCategory without the visibility check before the click
filterByCategoryUnprobed(p, category, f, n1, n2) ==
    IF CategoryEmpty(category) THEN Thrown(<<"CategoryEmpty">>, <<>>)
    ELSE Then(clickElement(p, categoryButton(category), f),
              waitForSearchResults(Results(p, n1), Results(p, n2), f))

filterByCategory(p, category, f, n1, n2) ==
    IF CategoryEmpty(category) THEN Thrown(<<"CategoryEmpty">>, <<>>)
    ELSE LET shown == isElementVisible(p, categoryButton(category))
         IN  Then(shown,
                  IF ~shown.res THEN Thrown(<<"CategoryNotFound">>, <<>>)
                  ELSE Then(clickElement(p, categoryButton(category), f),
                            waitForSearchResults(Results(p, n1), Results(p, n2), f)))

AfterFilter(p, r, n2) == IF Completed(r, "click") THEN Results(p, n2) ELSE p

attemptLogin(p, f) ==
    LET shown == isElementVisible(p, loginButton)
    IN  Then(shown,
             IF shown.res THEN Then(clickElement(p, loginButton, f), waitForPageLoad(f))
             ELSE Thrown(<<"LoginButtonNotFound">>, <<>>))

hasErrorMessages(p) == isElementVisible(p, errorMessage)

Digits == <<"0","1","2","3","4","5","6","7","8","9">>

\* String(n) of a non-negative integer, as a template literal writes it
RECURSIVE ToDigits(_)
ToDigits(n) ==
    IF n < 10 THEN <<Digits[n + 1]>>
    ELSE ToDigits(n \div 10) \o <<Digits[(n % 10) + 1]>>

ScreenshotDir == <<"s","c","r","e","e","n","s","h","o","t","s","/">>
PngSuffix == <<".","p","n","g">>

\* the path built from the time the page object was constructed
ScreenshotPathStale(name, now) ==
    ScreenshotDir \o name \o <<"-">> \o ToDigits(0) \o PngSuffix

\* `screenshots/${name}-${Date.now()}.png`, now being what Date.now() returns
ScreenshotPath(name, now) ==
    ScreenshotDir \o name \o <<"-">> \o ToDigits(now) \o PngSuffix

takeScreenshot(name, now, f) ==
    Wrap("FailedToScreenshot",
         Then(Driver("screenshot", "screenshotPath", f, "screenshot"),
              Returned(ScreenshotPath(name, now), <<>>)))

----------------------------------------------------------------------------
(* Configuration (config/test-config.ts).  An environment variable is the  *)
(* sequence of its characters, Unset when process.env does not have it.    *)

Unset == <<"undefined">>

envDevelopment == <<"d","e","v","e","l","o","p","m","e","n","t">>
envStaging == <<"s","t","a","g","i","n","g">>
envProduction == <<"p","r","o","d","u","c","t","i","o","n">>

stagingBase ==
    <<"h","t","t","p","s",":","/","/","s","t","a","g","i","n","g",".",
      "d","e","a","l","l","s",".","c","o","m">>
productionBase == <<"h","t","t","p","s",":","/","/","d","e","a","l","l","s",".","c","o","m">>

\* the fields of a profile that differ between environments
environmentConfigs ==
    [development |-> [urls |-> [base |-> baseURL, mentoring |-> MentoringPath],
                      retries |-> [ci |-> 2, local |-> 1]],
     staging     |-> [urls |-> [base |-> stagingBase, mentoring |-> MentoringPath],
                      retries |-> [ci |-> 2, local |-> 1]],
     production  |-> [urls |-> [base |-> productionBase, mentoring |-> MentoringPath],
                      retries |-> [ci |-> 3, local |-> 2]]]

\* process.env.X || fallback: an unset or empty variable gives the fallback
OrElse(value, fallback) == IF value = Unset \/ value = <<>> THEN fallback ELSE value

\* getTestConfig matching the environment name in any case
getTestConfigAnyCase(testEnv) ==
    LET environment == toLowerCase(OrElse(testEnv, envDevelopment))
    IN  CASE environment = envStaging -> environmentConfigs.staging
          [] environment = envProduction -> environmentConfigs.production
          [] OTHER -> environmentConfigs.development

getTestConfig(testEnv) ==
    LET environment == OrElse(testEnv, envDevelopment)
    IN  CASE environment = envStaging -> environmentConfigs.staging
          [] environment = envProduction -> environmentConfigs.production
          [] OTHER -> environmentConfigs.development

\* BasePage.constructor: process.env.PLAYWRIGHT_BASE_URL || the development origin
BasePage(playwrightBaseUrl) == OrElse(playwrightBaseUrl, baseURL)

\* goto's fullUrl for a page object whose baseURL is origin
fullUrlFrom(origin, url) == IF startsWith(url, HttpPrefix) THEN url ELSE origin \o url

----------------------------------------------------------------------------
(* Scenarios of the test suite (the part of each test after its opening    *)
(* navigateToMentoring).  failed: an error escaped the test; skipped: a    *)
(* step caught an error and returned early; errs: the errors the Facade    *)
(* call under test raised, in order.                                       *)

Matches(err, template) == \E i \in 1..Len(err) : err[i] = template

Outcome(name, r, skipped, errs, f) ==
    [name |-> name, failed |-> r.err # NoErr, err |-> r.err, log |-> r.log,
     skipped |-> skipped, errs |-> errs, f |-> f]

categoriesToTry == <<catITEng, catTechnology, catEngineering, catBusiness>>

\* for (const category of categoriesToTry) try { filterByCategory; break } catch { continue }
RECURSIVE TryCategories(_, _, _, _, _)
TryCategories(p, cats, f, n1, n2) ==
    IF cats = <<>> THEN [applied |-> FALSE, log |-> <<>>, errs |-> <<>>]
    ELSE LET r == filterByCategory(p, Head(cats), f, n1, n2)
             rest == TryCategories(p, Tail(cats), f, n1, n2)
         IN  IF r.err = NoErr THEN [applied |-> TRUE, log |-> r.log, errs |-> <<>>]
             ELSE [applied |-> rest.applied, log |-> r.log \o rest.log,
                   errs |-> <<r.err>> \o rest.errs]

\* test 'should support category filtering'
CategoryFilteringTest(p, f, n1, n2) ==
    LET tried == TryCategories(p, categoriesToTry, f, n1, n2)
        shown == IF tried.applied THEN Results(p, n2) ELSE p
        count == getMentorCount(shown, f)
        r == Then(Done(tried.log),
             Then(wait("2000", f),
             Then(count,
                  IF count.res >= 0 THEN Done(<<>>) ELSE Thrown(<<"ExpectFailed">>, <<>>))))
    IN  Outcome("category", r, ~tried.applied, tried.errs, f)

keywordEngineer == <<"E","n","g","i","n","e","e","r">>

\* try { body } catch (error) { if (message.includes(template)) return; else throw error }
CatchNotAvailable(body, template) ==
    IF body.err # NoErr /\ Matches(body.err, template) THEN Done(body.log) ELSE body

ExpectNoErrors(p) ==
    LET hasErrors == hasErrorMessages(p)
    IN  Then(hasErrors,
             IF hasErrors.res THEN Thrown(<<"ExpectFailed">>, <<>>) ELSE Done(<<>>))

\* test 'should support mentor search functionality'
MentorSearchTest(p, f, n1, n2) ==
    LET search == searchMentors(p, keywordEngineer, f, n1, n2)
        after == AfterSearch(p, search, keywordEngineer, n2)
        count == getMentorCount(after, f)
        r == Then(Done(<<Call("$$", "search inputs")>>),
             Then(CatchNotAvailable(Then(search, Then(wait("3000", f), ExpectNoErrors(after))),
                                    "SearchInputNotAvailable"),
             Then(count,
             Then(IF count.res >= 0 THEN Done(<<>>) ELSE Thrown(<<"ExpectFailed">>, <<>>),
                  takeScreenshot(<<"s","e","a","r","c","h","-","r","e","s","u","l","t","s">>,
                                 0, f)))))
    IN  Outcome("search", r,
                search.err # NoErr /\ Matches(search.err, "SearchInputNotAvailable"),
                IF search.err = NoErr THEN <<>> ELSE <<search.err>>, f)

\* test 'should handle authentication flows when available'
AuthenticationTest(p, f) ==
    LET login == attemptLogin(p, f)
        r == CatchNotAvailable(Then(login,
                               Then(wait("2000", f),
                                    IF p.url # <<>> THEN Done(<<>>)
                                    ELSE Thrown(<<"ExpectFailed">>, <<>>))),
                               "LoginButtonNotFound")
    IN  Outcome("login", r,
                login.err # NoErr /\ Matches(login.err, "LoginButtonNotFound"),
                IF login.err = NoErr THEN <<>> ELSE <<login.err>>, f)

----------------------------------------------------------------------------
(* The suite as the calls each test makes on the page, in program order     *)
(* (a loop is written out, a branch is taken).  F: a method of the page    *)
(* object; P: a call on the raw page through mentoringPage.pageInstance.   *)

F(op) == [via |-> "facade", op |-> op]

P(op) == [via |-> "page", op |-> op]

ViewportStep ==
    << P("setViewportSize"), F("wait"), F("getMentorCount"), F("getMentorNames") >>

DeviceTest ==
    << F("navigateToMentoring"), P("setViewportSize"), F("wait"), F("verifyPageLoaded"),
       F("takeScreenshot"), P("evaluate"), P("setViewportSize"), F("wait"),
       F("getPageTitle"), F("takeScreenshot") >>

\* a suite whose profile test counts the cards before it navigates
SuiteCountingFirst ==
    << << F("getMentorCount"), F("navigateToMentoring"), F("clickMentorCard") >> >>

Suite ==
    << << F("navigateToMentoring"), F("getPageTitle"), F("getCurrentUrl"),
          F("hasErrorMessages") >>,
       << F("navigateToMentoring"), F("getPageTitle"), F("takeScreenshot"),
          F("getMentorCount"), P("textContent"), F("getMentorNames"),
          F("getMentorCompanies") >>,
       << F("navigateToMentoring"), P("$$"), F("searchMentors"), F("wait"),
          F("hasErrorMessages"), F("getMentorCount"), F("takeScreenshot") >>,
       << F("navigateToMentoring"), F("filterByCategory"), F("wait"), F("getMentorCount") >>,
       << F("navigateToMentoring"), F("getMentorCount"), F("clickMentorCard"), F("wait"),
          F("getCurrentUrl") >>,
       << F("navigateToMentoring"), F("attemptLogin"), F("wait"), F("getCurrentUrl") >>,
       << F("navigateToMentoring"), P("setViewportSize"), F("wait"), F("verifyPageLoaded"),
          F("takeScreenshot"), P("setViewportSize"), F("wait"), F("getPageTitle"),
          F("takeScreenshot") >>,
       DeviceTest,
       DeviceTest,
       << F("navigateToMentoring") >> \o ViewportStep \o ViewportStep \o ViewportStep,
       << F("navigateToMentoring"), F("getPageTitle"), P("keyboard.press"), F("wait"),
          P("evaluate"), P("expect.toBeVisible") >>,
       << F("navigateToMentoring"), P("on"), F("refreshPage"), F("wait") >>,
       << P("route"), F("navigateToMentoring"), F("getPageTitle") >>,
       << F("navigateToMentoring"), F("searchMentors"), F("searchMentors"),
          F("hasErrorMessages"), F("getMentorCount") >>,
       << F("navigateToMentoring"), F("getMentorCount"), F("refreshPage"),
          F("verifyPageLoaded"), F("getMentorCount") >> >>

\* the test being played and the calls it has made so far
ScriptRun(k, pc) ==
    Outcome("script", Done(<<>>), FALSE, <<>>, "none")
        @@ [script |-> k, calls |-> SubSeq(Suite[k], 1, pc)]

----------------------------------------------------------------------------
(* The pages a build can serve and the inputs the actions draw *)

titleMentoring == <<"M","e","n","t","o","r","i","n","g">>
titleUpper == <<"C","A","R","I"," ","M","E","N","T","O","R">>
titleKarir == <<"K","a","r","i","r">>
title404 == <<"4","0","4"," ","N","o","t"," ","F","o","u","n","d">>
titleNearMiss == <<"M","e","n"," ","t","o","r">>

Titles == {titleMentoring, titleUpper, titleKarir, title404, titleNearMiss, <<>>}

Redirects == { <<>>, <<"/","l","o","g","i","n">>,
               <<"/","i","d","/","m","e","n","t","o","r","i","n","g">> }

Bodies == {-1, 0, MinWords - 2, MinWords - 1, 2 * MinWords}

FieldKinds == {"plain", "trims", "maxlen", "upper"}

ZeroCount == [s \in QuerySelectors |-> 0]

Small(S) == {X \in SUBSET S : Cardinality(X) <= MaxVisible}

BlankPage ==
    [url |-> <<"a","b","o","u","t",":","b","l","a","n","k">>, redirect |-> <<>>,
     title |-> <<>>, body |-> 0, visible |-> {}, multi |-> {}, stuck |-> {},
     count |-> ZeroCount, cards |-> 0, text |-> NullText, fieldKind |-> "plain",
     value |-> <<>>]

Good ==
    [url |-> <<>>, redirect |-> <<>>, title |-> titleMentoring, body |-> 2 * MinWords,
     visible |-> {pageTitle, searchSelectors[1], searchButtonSelectors[1], loginButton},
     multi |-> {}, stuck |-> {},
     count |-> [ZeroCount EXCEPT ![".mentor-card"] = 1, !["main"] = 1], cards |-> 1,
     text |-> titleMentoring, fieldKind |-> "plain", value |-> <<>>]

VerifyBuilds ==
    {[Good EXCEPT !.title = t, !.redirect = rd, !.body = b, !.visible = Good.visible \ h] :
        t \in Titles, rd \in Redirects, b \in Bodies, h \in {{}, {pageTitle}}}

InputBuilds ==
    {[Good EXCEPT !.visible = {pageTitle, searchButtonSelectors[1]} \cup I, !.fieldKind = k] :
        I \in Small(Range(searchSelectors)), k \in FieldKinds}

\* builds on which some search-input candidates match more than one element
StrictBuilds ==
    UNION {{[Good EXCEPT !.visible = {pageTitle, searchButtonSelectors[1]} \cup I, !.multi = M] :
               M \in (SUBSET I) \ {{}}} : I \in Small(Range(SubSeq(searchSelectors, 1, 3)))}

ButtonBuilds ==
    {[Good EXCEPT !.visible = {pageTitle, searchSelectors[1]} \cup B] :
        B \in Small(Range(searchButtonSelectors))}

\* the '.mentor-card' elements match the mentorCards locator, a '.card' one
\* does when it has a '.mentor' descendant, a '.grid > div' one does not
CardBuilds ==
    UNION {{[Good EXCEPT !.count = [ZeroCount EXCEPT ![".mentor-card"] = a, ![".card"] = b,
                                                     ![".grid > div"] = c],
                         !.cards = m,
                         !.visible = {pageTitle} \cup N] :
               m \in {k \in 0..MaxCards : /\ k >= (IF a > 0 THEN a ELSE 0)
                                          /\ k <= (IF a > 0 THEN a ELSE 0)
                                                    + (IF b > 0 THEN b ELSE 0)}} :
        a \in -1..MaxCards, b \in -1..MaxCards, c \in -1..MaxCards,
        N \in {{}, {".no-results"}, {".empty"}}}

LoadingBuilds ==
    UNION {{[Good EXCEPT !.visible = Good.visible \cup L, !.stuck = st] : st \in {{}, L}} :
              L \in Small(Range(loadingSelectors))}

AllCategories == {catITEng, catTechnology, catEngineering, catBusiness, catNonexistent}

AffordanceBuilds ==
    {[Good EXCEPT !.visible = {pageTitle, searchSelectors[1]} \cup C \cup X] :
        C \in SUBSET {categoryButton(c) : c \in AllCategories},
        X \in SUBSET {loginButton, errorMessage}}

KeyChars == {" ", "a"}

Texts == UNION {[1..n -> KeyChars] : n \in 0..MaxLen}

TextContents == {NullText, <<"\n", "a", " ", "a", "\t">>} \cup Texts

\* builds whose heading has each of the text contents, or is missing
TextBuilds ==
    {[Good EXCEPT !.text = t, !.visible = Good.visible \ h] :
        t \in TextContents, h \in {{}, {pageTitle}}}

Builds == VerifyBuilds \cup InputBuilds \cup StrictBuilds \cup ButtonBuilds \cup CardBuilds
            \cup LoadingBuilds \cup AffordanceBuilds \cup TextBuilds

\* latest clock reading
MaxClock == 11

LabelChars == {"a", "-", "1"}

Labels == UNION {[1..n -> LabelChars] : n \in 0..MaxLen}

\* values of TEST_ENV
TestEnvs ==
    { Unset, <<>>, envDevelopment, envStaging, envProduction,
      <<"S","t","a","g","i","n","g">>, <<"P","R","O","D","U","C","T","I","O","N">>,
      <<"p","r","o","d">>, <<"s","t","a","g","i","n","g"," ">>, <<"t","e","s","t">> }

\* what the driver and the page do during one run: the fault, and the
\* number of result cards at the two samples of waitForSearchResults
Oracles(faults) ==
    {[f |-> f, n1 |-> 0, n2 |-> 0] : f \in faults}
        \cup {[f |-> "none", n1 |-> a, n2 |-> b] : a \in 0..MaxCards, b \in 0..MaxCards}

----------------------------------------------------------------------------
(* State: the page, the last page-object call and the last scenario run *)

\* shown: the result cards the page showed at the two count samples of a
\* search or filter that returned normally, <<>> otherwise; follows: the call is a
\* verifyPageLoaded right after a verifyPageLoaded that returned normally
Last(op, arg, f, r) ==
    [op |-> op, arg |-> arg, f |-> f, err |-> r.err, log |-> r.log,
     res |-> IF r.res \in Int THEN r.res ELSE 0, shown |-> <<>>, follows |-> FALSE]

\* the record of a call that returns a boolean: res is 1 for true, 0 for false
LastProbe(op, arg, r) ==
    [op |-> op, arg |-> arg, f |-> "none", err |-> r.err, log |-> r.log,
     res |-> IF r.err = NoErr /\ r.res THEN 1 ELSE 0, shown |-> <<>>, follows |-> FALSE]

NoTest == Outcome("none", Done(<<>>), FALSE, <<>>, "none")

Init ==
    /\ page = BlankPage
    /\ last = Last("new", <<>>, "none", Done(<<>>))
    /\ test = NoTest

\* test.beforeEach: a fresh page and a new MentoringPage on it
BeforeEach ==
    /\ last.op # "new"
    /\ page' = BlankPage
    /\ last' = Last("new", <<>>, "none", Done(<<>>))
    /\ test' = NoTest

Fresh == last.op \in {"new", "navigateToMentoring"}

\* a test goes on to act on the page only when its navigation returned
Ready == Fresh /\ last.err = NoErr

NavigateToMentoring ==
    /\ last.op = "new"
    /\ \E build \in Builds, f \in {"none", "goto", "loadState"} :
          LET r == navigateToMentoring(build, f)
          IN  /\ page' = IF Completed(r, "goto") THEN Landed(build, MentoringPath) ELSE page
              /\ last' = Last("navigateToMentoring", <<>>, f, r)
    /\ UNCHANGED test

GotoUrls ==
    { MentoringPath, <<"/">>, baseURL \o MentoringPath,
      <<"h","t","t","p","s",":","/","/","d","e","a","l","l","s",".","c","o","m">> }

\* sent: the URL handed to the driver; named: the URL in the message of
\* the error thrown, <<>> when none is
Goto ==
    /\ last.op = "new"
    /\ \E url \in GotoUrls, option \in {"", "load", "domcontentloaded", "networkidle"},
          build \in {Good} \cup LoadingBuilds, f \in {"none", "goto"} :
          LET r == goto(url, option, f)
          IN  /\ page' = IF Completed(r, "goto") THEN Landed(build, url) ELSE page
              /\ last' = Last("goto", url, f, r)
                            @@ [sent |-> fullUrl(url),
                                named |-> IF r.err = NoErr THEN <<>>
                                          ELSE NavigationErrorUrl(url)]
    /\ UNCHANGED test

\* the last call was a verifyPageLoaded that returned normally, on its own
\* or as the closing step of navigateToMentoring
Verified == last.op \in {"verifyPageLoaded", "navigateToMentoring"} /\ last.err = NoErr

\* verifyPageLoaded issues no driver call that acts on the page
VerifyPageLoaded ==
    /\ Fresh \/ last.op = "verifyPageLoaded"
    /\ \E f \in {"none", "waitFor", "title", "loadState", "timeout", "textContent"} :
          last' = [Last("verifyPageLoaded", <<>>, f, verifyPageLoaded(page, f))
                      EXCEPT !.follows = Verified]
    /\ UNCHANGED <<page, test>>

SearchMentors ==
    /\ Ready
    /\ \E keyword \in Texts,
          o \in Oracles({"none", "loadState", "waitFor", "clear", "fill", "inputValue",
                         "click", "press", "timeout"}) :
          LET r == searchMentors(page, keyword, o.f, o.n1, o.n2)
          IN  /\ page' = AfterSearch(page, r, keyword, o.n2)
              /\ last' = [Last("searchMentors", keyword, o.f, r)
                              EXCEPT !.shown = IF r.err = NoErr THEN <<o.n1, o.n2>> ELSE <<>>]
    /\ UNCHANGED test

FilterByCategory ==
    /\ Ready
    /\ \E category \in AllCategories \cup {<<>>, <<" ">>},
          o \in Oracles({"none", "waitFor", "click", "timeout"}) :
          LET r == filterByCategory(page, category, o.f, o.n1, o.n2)
          IN  /\ page' = AfterFilter(page, r, o.n2)
              /\ last' = [Last("filterByCategory", category, o.f, r)
                              EXCEPT !.shown = IF r.err = NoErr THEN <<o.n1, o.n2>> ELSE <<>>]
    /\ UNCHANGED test

\* the card clicks the scenarios and their callers make: in range, past
\* the end and before the start
CardIndexes == -2..MaxCards

ClickMentorCard ==
    /\ Ready
    /\ \E index \in CardIndexes, f \in {"none", "timeout", "scroll", "click"} :
          last' = Last("clickMentorCard", <<>>, f, clickMentorCard(page, index, f))
                      @@ [index |-> index]
    /\ UNCHANGED <<page, test>>

GetMentorCount ==
    /\ Fresh
    /\ \E f \in {"none", "timeout"} :
          last' = Last("getMentorCount", <<>>, f, getMentorCount(page, f))
    /\ UNCHANGED <<page, test>>

TypeText ==
    /\ Ready
    /\ \E text \in Texts, f \in {"none", "waitFor", "clear", "fill", "inputValue"} :
          LET r == typeText(page, searchSelectors[1], text, f)
          IN  /\ page' = [page EXCEPT !.value = TypedValue(page, r, text)]
              /\ last' = Last("typeText", text, f, r)
    /\ UNCHANGED test

AttemptLogin ==
    /\ Fresh
    /\ \E f \in {"none", "waitFor", "click", "loadState"} :
          last' = Last("attemptLogin", <<>>, f, attemptLogin(page, f))
    /\ UNCHANGED <<page, test>>

\* at: the clock when the call was made; Date.now() inside the call reads
\* a clock that has not gone back; out: the path returned
TakeScreenshot ==
    /\ last.op = "new"
    /\ \E name \in Labels, at \in 0..MaxClock, f \in {"none", "screenshot"} :
          \E now \in at..MaxClock :
              LET r == takeScreenshot(name, now, f)
              IN  last' = Last("takeScreenshot", name, f, [r EXCEPT !.res = 0])
                            @@ [at |-> at, out |-> IF r.err = NoErr THEN r.res ELSE <<>>]
    /\ UNCHANGED <<page, test>>

\* profile: the configuration returned under TEST_ENV = testEnv
\* values of PLAYWRIGHT_BASE_URL
BaseUrlSettings == {Unset, <<>>, baseURL, stagingBase, productionBase}

\* new MentoringPage(page) under an environment: the origin its goto prepends
NewBasePage ==
    /\ last.op = "new"
    /\ \E testEnv \in TestEnvs, playwrightBaseUrl \in BaseUrlSettings :
          last' = Last("constructor", testEnv, "none", Done(<<>>))
                    @@ [playwrightBaseUrl |-> playwrightBaseUrl,
                        baseURL |-> BasePage(playwrightBaseUrl),
                        sent |-> fullUrlFrom(BasePage(playwrightBaseUrl), MentoringPath)]
    /\ UNCHANGED <<page, test>>

GetTestConfig ==
    /\ last.op = "new"
    /\ \E testEnv \in TestEnvs :
          last' = Last("getTestConfig", testEnv, "none", Done(<<>>))
                    @@ [profile |-> getTestConfig(testEnv)]
    /\ UNCHANGED <<page, test>>

\* locators the page objects click
ClickedLocators == {loginButton, searchButtonSelectors[1], searchSelectors[1], errorMessage}

ClickElement ==
    /\ Fresh
    /\ \E locator \in ClickedLocators, f \in {"none", "waitFor", "click"} :
          last' = Last("clickElement", locator, f, clickElement(page, locator, f))
    /\ UNCHANGED <<page, test>>

\* out: the text returned, <<>> when the call threw
GetElementText ==
    /\ Fresh
    /\ \E f \in {"none", "waitFor", "textContent"} :
          LET r == getElementText(page, pageTitle, f)
          IN  last' = Last("getElementText", pageTitle, f, [r EXCEPT !.res = 0])
                        @@ [out |-> IF r.err = NoErr THEN r.res ELSE <<>>]
    /\ UNCHANGED <<page, test>>

\* locators the suite probes with isElementVisible
ProbedLocators == Range(searchSelectors) \cup {pageTitle, loginButton, errorMessage}

IsElementVisible ==
    /\ Fresh
    /\ \E locator \in ProbedLocators :
          last' = LastProbe("isElementVisible", locator, isElementVisible(page, locator))
    /\ UNCHANGED <<page, test>>

Navigated == last.op = "navigateToMentoring" /\ last.err = NoErr

RunCategoryFilteringTest ==
    /\ Navigated
    /\ \E o \in Oracles({"none", "waitFor", "click", "timeout"}) :
          LET t == CategoryFilteringTest(page, o.f, o.n1, o.n2)
          IN  /\ test' = t
              /\ page' = IF t.skipped THEN page ELSE Results(page, o.n2)
              /\ last' = Last("test", <<>>, o.f, Done(<<>>))

RunMentorSearchTest ==
    /\ Navigated
    /\ \E o \in Oracles({"none", "loadState", "waitFor", "fill", "click", "press",
                         "timeout", "screenshot"}) :
          LET t == MentorSearchTest(page, o.f, o.n1, o.n2)
          IN  /\ test' = t
              /\ page' = AfterSearch(page, searchMentors(page, keywordEngineer, o.f, o.n1, o.n2),
                                     keywordEngineer, o.n2)
              /\ last' = Last("test", <<>>, o.f, Done(<<>>))

RunAuthenticationTest ==
    /\ Navigated
    /\ \E f \in {"none", "waitFor", "click", "loadState", "timeout"} :
          /\ test' = AuthenticationTest(page, f)
          /\ last' = Last("test", <<>>, f, Done(<<>>))
    /\ UNCHANGED page

\* a test of the suite makes its next call, on the page of beforeEach
ScriptStep ==
    /\ \/ /\ last.op = "new"
          /\ \E k \in 1..Len(Suite) : test' = ScriptRun(k, 1)
       \/ /\ test.name = "script"
          /\ Len(test.calls) < Len(Suite[test.script])
          /\ test' = ScriptRun(test.script, Len(test.calls) + 1)
    /\ last' = Last("test", <<>>, "none", Done(<<>>))
    /\ UNCHANGED page

Next ==
    \/ BeforeEach
    \/ NavigateToMentoring
    \/ VerifyPageLoaded
    \/ SearchMentors
    \/ FilterByCategory
    \/ GetMentorCount
    \/ ClickMentorCard
    \/ TypeText
    \/ AttemptLogin
    \/ IsElementVisible
    \/ Goto
    \/ GetElementText
    \/ ClickElement
    \/ TakeScreenshot
    \/ GetTestConfig
    \/ NewBasePage
    \/ ScriptStep
    \/ RunCategoryFilteringTest
    \/ RunMentorSearchTest
    \/ RunAuthenticationTest

Spec == Init /\ [][Next]_vars

----------------------------------------------------------------------------
(* Properties *)

\* the locator resolves to one visible element: a wait for it succeeds
Shown(p, locator) == WaitOutcome(p, locator) = "visible"

SomeVisible(p, sels) == \E i \in 1..Len(sels) : Shown(p, sels[i])

\* index of the earliest candidate of sels that is visible on p
Earliest(p, sels) ==
    CHOOSE i \in 1..Len(sels) :
        Shown(p, sels[i]) /\ \A j \in 1..(i - 1) : ~Shown(p, sels[j])

\* candidates of sels a run probed or acted on / acted on
Touched(log, sels) ==
    {log[i].a : i \in {k \in 1..Len(log) : log[k].a \in Range(sels)}}

Acted(log, sels) ==
    {log[i].a : i \in {k \in 1..Len(log) : log[k].a \in Range(sels) /\ log[k].c # "waitFor"}}

\* the run went on to use the candidate: its probe is followed by the
\* waitForElement of typeText / clickElement on the same candidate
Used(log, sel) ==
    \E i \in 1..(Len(log) - 1) :
        log[i] = Call("waitFor", sel) /\ log[i + 1] = Call("waitFor", sel)

EarliestWins(p, log, sels) ==
    (SomeVisible(p, sels) /\ Touched(log, sels) # {}) =>
        LET k == Earliest(p, sels)
        IN  /\ Used(log, sels[k])
            /\ Acted(log, sels) \subseteq {sels[k]}
            /\ Touched(log, sels) = {sels[j] : j \in 1..k}

\* C1: a searchMentors run that reaches a candidate list with a visible
\* candidate uses the earliest visible candidate: it probes the list up to
\* that candidate and no further, and every action on a candidate of the
\* list is on that one.
C1_EarliestVisibleCandidateUsed ==
    last.op = "searchMentors" =>
        /\ EarliestWins(page, last.log, searchSelectors)
        /\ EarliestWins(page, last.log, searchButtonSelectors)

C1_Witness ==
    /\ last.op = "searchMentors"
    /\ last.err = NoErr
    /\ searchSelectors[1] \notin page.visible
    /\ Cardinality(page.visible \cap Range(searchSelectors)) >= 2
    /\ \E i \in 1..Len(last.log) :
          last.log[i] = Call("fill", searchSelectors[Earliest(page, searchSelectors)])

NonBlank(text) == \E i \in 1..Len(text) : text[i] \notin WhiteSpace

Probes(sels) == [i \in 1..Len(sels) |-> Call("waitFor", sels[i])]

IsSubSeq(sub, s) ==
    \E i \in 0..(Len(s) - Len(sub)) : SubSeq(s, i + 1, i + Len(sub)) = sub

\* C2: when no search input is visible, searchMentors probes every
\* candidate and fails with 'Search input not available' and with no error
\* of the probing; when the text was typed and no search button is
\* visible, every button candidate is probed, nothing is clicked and Enter
\* is pressed in the input.
C2_ExhaustedListIsNotFound ==
    (last.op = "searchMentors" /\ NonBlank(last.arg) /\ last.f # "loadState") =>
        /\ ~SomeVisible(page, searchSelectors) =>
              /\ last.err = <<"SearchInputNotAvailable">>
              /\ last.log = <<Call("waitForLoadState", "networkidle")>> \o Probes(searchSelectors)
        /\ (/\ SomeVisible(page, searchSelectors)
            /\ ~SomeVisible(page, searchButtonSelectors)
            /\ Completed(last, "inputValue")
            /\ ~Matches(last.err, "FailedToType")) =>
              /\ IsSubSeq(Probes(searchButtonSelectors)
                            \o <<Call("press", searchSelectors[Earliest(page, searchSelectors)])>>,
                          last.log)
              /\ \A i \in 1..Len(last.log) : last.log[i].c # "click"
              /\ last.err \in {NoErr, <<"DriverError">>}

C2_Witness ==
    /\ last.op = "searchMentors"
    /\ NonBlank(last.arg)
    /\ ~SomeVisible(page, searchSelectors)
    /\ last.err = <<"SearchInputNotAvailable">>
    /\ Len(last.log) = 1 + Len(searchSelectors)

\* C3: typeText returns normally only when the value read back from the
\* field equals the text; when the read-back differs it fails with the
\* text-verification error.
C3_TypeTextVerified ==
    last.op = "typeText" =>
        /\ last.err = NoErr => page.value = last.arg
        /\ (Completed(last, "inputValue") /\ page.value # last.arg) =>
              last.err = <<"FailedToType", "TextVerificationFailed">>

C3_Witness ==
    /\ last.op = "typeText"
    /\ Completed(last, "inputValue")
    /\ page.value # last.arg
    /\ last.err = <<"FailedToType", "TextVerificationFailed">>

\* C4: searchMentors with an empty or all-whitespace keyword fails with
\* 'Search keyword cannot be empty' and has issued no driver call.
C4_EmptyKeywordRejectedFirst ==
    (last.op = "searchMentors" /\ ~NonBlank(last.arg)) =>
        last.err = <<"KeywordEmpty">> /\ last.log = <<>>

C4_Witness ==
    /\ last.op = "searchMentors"
    /\ last.arg = <<" ", " ">>
    /\ last.err = <<"KeywordEmpty">>

HasMentor(title) == includes(toLowerCase(title), <<"m","e","n","t","o","r">>)

OnMentoring(p) == p.url = baseURL \o MentoringPath

HeadingShown(p) == Shown(p, pageTitle)

ContentQueriesAnswer(p) == \A i \in 1..Len(contentSelectors) : p.count[contentSelectors[i]] # -1

\* C5 as stated: on /mentoring of the configured origin with a title
\* containing "mentor", verifyPageLoaded succeeds (no driver call failing).
C5_Original ==
    (/\ last.op = "verifyPageLoaded"
     /\ last.f = "none"
     /\ ContentQueriesAnswer(page)
     /\ OnMentoring(page)
     /\ HasMentor(page.title)) =>
        last.err = NoErr

\* C5 amended: on /mentoring of the configured origin with a title
\* containing "mentor" (any case), verifyPageLoaded never fails with the
\* title-mismatch error, and it succeeds when in addition the heading is
\* visible, the body has at least MinWords words and no driver call fails.
C5_TitleWithMentorAccepted ==
    (last.op = "verifyPageLoaded" /\ OnMentoring(page) /\ HasMentor(page.title)) =>
        /\ ~Matches(last.err, "TitleMismatch")
        /\ (/\ HeadingShown(page)
            /\ wordCount(page) >= MinWords
            /\ ContentQueriesAnswer(page)
            /\ last.f = "none") => last.err = NoErr

C5_Witness ==
    /\ last.op = "verifyPageLoaded"
    /\ OnMentoring(page)
    /\ page.title = titleUpper
    /\ last.err = NoErr

\* C6 as stated: with the title "404 Not Found" verifyPageLoaded fails with
\* the title-mismatch error and no other (no driver call failing).
C6_Original ==
    (last.op = "verifyPageLoaded" /\ last.f = "none" /\ page.title = title404) =>
        last.err = <<"TitleMismatch">>

\* C6 amended: with the title "404 Not Found" verifyPageLoaded always
\* fails; the failure is the title-mismatch error when the heading is
\* visible and the title is read, the element-not-found error of the
\* heading wait when the heading is not visible, and the title-read error
\* when reading the title fails.
C6_NotFoundTitleFails ==
    (last.op = "verifyPageLoaded" /\ page.title = title404) =>
        /\ last.err # NoErr
        /\ (HeadingShown(page) /\ last.f \notin {"waitFor", "title"}) =>
              last.err = <<"TitleMismatch">>
        /\ (~HeadingShown(page) \/ last.f = "waitFor") => last.err = <<"ElementNotFound">>
        /\ (HeadingShown(page) /\ last.f = "title") =>
              last.err = <<"FailedToGetTitle", "DriverError">>

C6_Witness ==
    /\ last.op = "verifyPageLoaded"
    /\ page.title = title404
    /\ HeadingShown(page)
    /\ last.err = <<"TitleMismatch">>
    /\ last.log = <<Call("waitFor", pageTitle), Call("title", "")>>

\* C7: when navigateToMentoring returns normally, the page title contains
\* 'mentoring', 'mentor' or 'karir' in any case and the URL contains
\* '/mentoring'.
C7_NavigatedMeansMentoringPage ==
    (last.op = "navigateToMentoring" /\ last.err = NoErr) =>
        /\ \E w \in { <<"m","e","n","t","o","r","i","n","g">>, <<"m","e","n","t","o","r">>,
                      <<"k","a","r","i","r">> } : includes(toLowerCase(page.title), w)
        /\ includes(page.url, <<"/","m","e","n","t","o","r","i","n","g">>)

C7_Witness ==
    /\ last.op = "navigateToMentoring"
    /\ last.err = NoErr
    /\ page.title = titleKarir
    /\ page.redirect # <<>>

\* C8: on a page where every card selector matches nothing and a
\* no-results indicator is visible, getMentorCount returns 0 and does not
\* throw (the page being open, so that its waits return).
C8_NoResultsCountsZero ==
    (/\ last.op = "getMentorCount"
     /\ last.f = "none"
     /\ \A i \in 1..Len(cardSelectors) : page.count[cardSelectors[i]] = 0
     /\ SomeVisible(page, noResultsSelectors)) =>
        last.err = NoErr /\ last.res = 0

C8_Witness ==
    /\ last.op = "getMentorCount"
    /\ last.f = "none"
    /\ \A i \in 1..Len(cardSelectors) : page.count[cardSelectors[i]] = 0
    /\ ".empty" \in page.visible
    /\ last.res = 0
    /\ last.err = NoErr

NoClick(log) == \A i \in 1..Len(log) : log[i].c # "click"

\* C9: filterByCategory for a category whose control the page lacks fails
\* with 'Category filter ... not found' after the probe alone, without a
\* click; the category-filtering test on a page with none of the controls
\* it tries catches each such error, clicks nothing, returns early from the
\* step and does not fail (when no driver call fails, not at all; else
\* only with that driver error).
C9_MissingCategoryIsGracefulSkip ==
    /\ (/\ last.op = "filterByCategory"
        /\ NonBlank(last.arg)
        /\ ~Shown(page, categoryButton(last.arg))) =>
          /\ last.err = <<"CategoryNotFound">>
          /\ last.log = <<Call("waitFor", categoryButton(last.arg))>>
    /\ (/\ test.name = "category"
        /\ \A i \in 1..Len(categoriesToTry) : ~Shown(page, categoryButton(categoriesToTry[i]))) =>
          /\ test.errs = [i \in 1..Len(categoriesToTry) |-> <<"CategoryNotFound">>]
          /\ test.skipped
          /\ NoClick(test.log)
          /\ test.f = "none" => ~test.failed
          /\ test.failed => test.err = <<"DriverError">>

C9_Witness ==
    /\ test.name = "category"
    /\ categoryButton(catNonexistent) \notin page.visible
    /\ Len(test.errs) = Len(categoriesToTry)
    /\ test.skipped
    /\ ~test.failed

NotAvailable(err) ==
    err \in { <<"SearchInputNotAvailable">>, <<"CategoryNotFound">>, <<"LoginButtonNotFound">> }

\* C10: in the search, category-filter and login scenarios, an error of the
\* Facade call that is not of the "not available" kind fails the scenario,
\* and a "not available" error is caught and makes the step return early.
C10_OnlyNotAvailableIsCaught ==
    test.name \in {"search", "category", "login"} =>
        \A i \in 1..Len(test.errs) :
            /\ ~NotAvailable(test.errs[i]) => test.failed
            /\ NotAvailable(test.errs[i]) => test.skipped

\* the milliseconds of a waitForTimeout call
Millis(a) == CASE a = "2000" -> 2000 [] a = "3000" -> 3000 [] OTHER -> 0

\* the stabilization phase of a run: its calls after the wait(3000) that
\* opens it in waitForSearchResults, <<>> when the run did not get there
Stabilization(log) ==
    IF \E i \in 1..Len(log) : log[i] = Call("waitForTimeout", "3000")
    THEN SubSeq(log, 1 + (CHOOSE i \in 1..Len(log) : log[i] = Call("waitForTimeout", "3000")),
                Len(log))
    ELSE <<>>

\* count samples of a log: getMentorCount queries every card selector once
Samples(log) == Cardinality({i \in 1..Len(log) : log[i] = Call("$$", cardSelectors[1])})

\* time a log spends in waitForTimeout, which always waits its full delay
RECURSIVE FixedWaits(_)
FixedWaits(log) ==
    IF log = <<>> THEN 0
    ELSE (IF Head(log).c = "waitForTimeout" THEN Millis(Head(log).a) ELSE 0)
            + FixedWaits(Tail(log))

\* the waits of a log that are not the opening wait of a count sample
SettleWaits(log) ==
    Cardinality({i \in 1..Len(log) :
                    /\ log[i] = Call("waitForTimeout", "2000")
                    /\ ~(i < Len(log) /\ log[i + 1] = Call("$$", cardSelectors[1]))})

Stabilizes == last.op \in {"searchMentors", "filterByCategory"}

SampledCounts ==
    << MaxCount(Results(page, last.shown[1]), cardSelectors, 0),
       MaxCount(Results(page, last.shown[2]), cardSelectors, 0) >>

Stabilized == Stabilizes /\ last.err = NoErr /\ Stabilization(last.log) # <<>>

EndsWithWait(log) == log # <<>> /\ log[Len(log)] = Call("waitForTimeout", "2000")

StuckLoading(p) ==
    \E i \in 1..Len(loadingSelectors) :
        Shown(p, loadingSelectors[i]) /\ loadingSelectors[i] \in p.stuck

\* C14: verifyPageLoaded returns normally only if the readiness signals it
\* checks held: both load states were reached, no loading indicator stayed
\* visible past its timeout, and the body has at least MinWords words; a
\* timed-out wait is never a silent success.
C14_ReadyOnlyIfSignalsHeld ==
    (last.op = "verifyPageLoaded" /\ last.err = NoErr) =>
        /\ Completed(last, "waitForLoadState")
        /\ ~StuckLoading(page)
        /\ wordCount(page) >= MinWords

\* driver calls that act on the page: navigation, input, resizing
ActingCalls == {"goto", "reload", "click", "press", "clear", "fill", "setViewportSize"}

ReadOnly(log) == \A i \in 1..Len(log) : log[i].c \notin ActingCalls

C16_GotoErrorNamesResolvedUrl ==
    last.op = "goto" =>
        /\ last.sent = IF startsWith(last.arg, HttpPrefix) THEN last.arg ELSE baseURL \o last.arg
        /\ last.f = "goto" =>
              /\ last.err = <<"FailedToNavigate", "DriverError">>
              /\ last.named = last.sent

LoadingShown(p) == \E i \in 1..Len(loadingSelectors) : Shown(p, loadingSelectors[i])

\* C17 as stated: goto returns normally only when the navigation settled
\* and no loading indicator is visible any more.
C17_Original ==
    (last.op = "goto" /\ last.err = NoErr) =>
        /\ Completed(last, "goto")
        /\ ~LoadingShown(page)

\* C17 amended: goto returns normally only when the driver's navigation
\* returned, having reached the requested waitUntil state (network idle
\* when none is requested); that is its only driver call: it looks at no
\* loading indicator, and fails exactly when the navigation fails.
C17_GotoSettlesNavigationOnly ==
    last.op = "goto" =>
        /\ \E state \in {"load", "domcontentloaded", "networkidle"} :
              last.log = <<Call("goto", state)>>
        /\ last.err = NoErr <=> last.f # "goto"
        /\ last.err = NoErr => Completed(last, "goto") /\ page.url # BlankPage.url

C17_Witness ==
    /\ last.op = "goto"
    /\ last.err = NoErr
    /\ last.log = <<Call("goto", "networkidle")>>
    /\ StuckLoading(page)

Trimmed(text) ==
    text = <<>> \/ (text[1] \notin WhiteSpace /\ text[Len(text)] \notin WhiteSpace)

\* C18: getElementText returns the element's text without surrounding
\* white space, and the empty string when the element has no text (null or
\* only white space); it fails, with the wrapped get-text error, only when
\* the element does not show or the driver call on it fails, never for a
\* missing text.
C18_GetElementTextTrimmedOrEmpty ==
    last.op = "getElementText" =>
        /\ (Shown(page, last.arg) /\ last.f = "none") =>
              /\ last.err = NoErr
              /\ Trimmed(last.out)
              /\ page.text = NullText => last.out = <<>>
              /\ page.text # NullText =>
                    /\ last.out = trim(page.text)
                    /\ IsSubSeq(last.out, page.text)
                    /\ NonBlank(page.text) <=> last.out # <<>>
        /\ last.err # NoErr =>
              /\ ~Shown(page, last.arg) \/ last.f # "none"
              /\ last.err[1] = "FailedToGetText"

C18_Witness ==
    /\ last.op = "getElementText"
    /\ page.text \in {NullText, <<" ", " ">>}
    /\ last.err = NoErr
    /\ last.out = <<>>

\* C19: no driver error leaves a page-object call raw: an error chain that
\* ends in a driver error has a wrapping error of the page object in front
\* of it.
C19_DriverErrorsAreWrapped ==
    Matches(last.err, "DriverError") =>
        /\ Len(last.err) >= 2
        /\ last.err[1] # "DriverError"
        /\ last.err[Len(last.err)] = "DriverError"

\* index of the earliest candidate of sels with a visible first match on p
EarliestMatch(p, sels) ==
    CHOOSE i \in 1..Len(sels) :
        sels[i] \in p.visible /\ \A j \in 1..(i - 1) : sels[j] \notin p.visible

\* C20: a candidate that matches several elements binds to the first of
\* them: when searchMentors reaches its search-input list and the earliest
\* candidate with a visible match matches more than one element, that
\* candidate is found and used.
C20_MultiMatchBindsToFirst ==
    (/\ last.op = "searchMentors"
     /\ Touched(last.log, searchSelectors) # {}
     /\ \E i \in 1..Len(searchSelectors) : searchSelectors[i] \in page.visible) =>
        LET c == searchSelectors[EarliestMatch(page, searchSelectors)]
        IN  c \in page.multi => Used(last.log, c)

\* the locator a clickElement / typeText call of the model acts on
Target == IF last.op = "typeText" THEN searchSelectors[1] ELSE last.arg

ActsOn(call, locator) == call.c \in {"click", "clear", "fill"} /\ call.a = locator

\* C21: clickElement and typeText click, clear or fill only after the wait
\* for the target returned with the target visible; when the wait fails,
\* nothing is clicked, cleared or filled and the call fails.
C21_ActOnlyAfterVisibleWait ==
    last.op \in {"clickElement", "typeText"} =>
        /\ \A i \in 1..Len(last.log) :
              ActsOn(last.log[i], Target) =>
                  /\ Shown(page, Target)
                  /\ last.f # "waitFor"
                  /\ \E j \in 1..(i - 1) : last.log[j] = Call("waitFor", Target)
        /\ (~Shown(page, Target) \/ last.f = "waitFor") =>
              /\ last.err # NoErr
              /\ last.log = <<Call("waitFor", Target)>>

C21_Witness ==
    /\ last.op = "clickElement"
    /\ ~Shown(page, last.arg)
    /\ last.arg \in page.visible
    /\ last.err = <<"FailedToClick", "ElementNotFound">>
    /\ last.log = <<Call("waitFor", last.arg)>>

endsWith(s, suf) ==
    Len(suf) <= Len(s) /\ SubSeq(s, Len(s) - Len(suf) + 1, Len(s)) = suf

\* the decimal number a sequence of digits writes, -1 when it is not one
RECURSIVE ParseDigits(_)
ParseDigits(s) ==
    IF s = <<>> \/ \E i \in 1..Len(s) : s[i] \notin Range(Digits) THEN -1
    ELSE LET d == (CHOOSE k \in 1..10 : Digits[k] = s[Len(s)]) - 1
         IN  IF Len(s) = 1 THEN d ELSE 10 * ParseDigits(SubSeq(s, 1, Len(s) - 1)) + d

\* the timestamp read back from a path: the digits between the last '-'
\* and the '.png' suffix
StampOf(path) ==
    LET stem == SubSeq(path, 1, Len(path) - Len(PngSuffix))
        dashes == {i \in 1..Len(stem) : stem[i] = "-"}
    IN  IF ~endsWith(path, PngSuffix) \/ dashes = {} THEN -1
        ELSE LET k == CHOOSE i \in dashes : \A j \in dashes : j <= i
             IN  ParseDigits(SubSeq(stem, k + 1, Len(stem)))

\* the label read back from a path: what stands between 'screenshots/'
\* and the last '-'
LabelOf(path) ==
    LET stem == SubSeq(path, 1, Len(path) - Len(PngSuffix))
        k == CHOOSE i \in 1..Len(stem) :
                 stem[i] = "-" /\ \A j \in (i + 1)..Len(stem) : stem[j] # "-"
    IN  SubSeq(stem, Len(ScreenshotDir) + 1, k - 1)

\* C22: takeScreenshot returns a path screenshots/{label}-{timestamp}.png
\* whose label is the one passed and whose timestamp is not earlier than
\* the time of the call; when the capture fails it throws the wrapped
\* screenshot error and returns no path.
C22_ScreenshotPathRoundTrip ==
    last.op = "takeScreenshot" =>
        /\ last.f = "none" =>
              /\ last.err = NoErr
              /\ startsWith(last.out, ScreenshotDir)
              /\ endsWith(last.out, PngSuffix)
              /\ includes(last.out, last.arg)
              /\ LabelOf(last.out) = last.arg
              /\ StampOf(last.out) >= last.at
        /\ last.f = "screenshot" =>
              /\ last.err = <<"FailedToScreenshot", "DriverError">>
              /\ last.out = <<>>

C22_Witness ==
    /\ last.op = "takeScreenshot"
    /\ last.err = NoErr
    /\ last.arg = <<"a", "-">>
    /\ last.at = 9
    /\ StampOf(last.out) = 10

\* C23: getTestConfig returns the staging profile for TEST_ENV 'staging',
\* the production profile for 'production', and the development profile
\* when TEST_ENV is unset, empty or anything else.
C23_ProfileSelectedByTestEnv ==
    last.op = "getTestConfig" =>
        /\ last.arg = envStaging =>
              /\ last.profile = environmentConfigs.staging
              /\ last.profile.urls.base = stagingBase
        /\ last.arg = envProduction =>
              /\ last.profile = environmentConfigs.production
              /\ last.profile.urls.base = productionBase
              /\ last.profile.retries.ci = 3
        /\ last.arg \notin {envStaging, envProduction} =>
              /\ last.profile = environmentConfigs.development
              /\ last.profile.urls.base = baseURL

C23_Witness ==
    /\ last.op = "getTestConfig"
    /\ last.arg = <<"S","t","a","g","i","n","g">>
    /\ last.profile.urls.base = baseURL

\* calls that set up the page without touching what it shows
SetupCalls == {P("route"), P("on")}

\* C24: in every test the first call on the page object is
\* navigateToMentoring, and every count, search, filter, click, viewport
\* or read call, on the page object or on the raw page, comes after it.
C24_NavigationComesFirst ==
    test.name = "script" =>
        \A i \in 1..Len(test.calls) :
            \/ test.calls[i] = F("navigateToMentoring")
            \/ \E j \in 1..(i - 1) : test.calls[j] = F("navigateToMentoring")
            \/ test.calls[i] \in SetupCalls

C24_Witness ==
    /\ test.name = "script"
    /\ page = BlankPage
    /\ Len(test.calls) = 3
    /\ test.calls[1] = P("route")
    /\ test.calls[2] = F("navigateToMentoring")
    /\ test.calls[3].via = "facade"

\* the phase of verifyPageLoaded a driver call belongs to: 1 heading,
\* 2 title, 4 navigation settled, 5 loading indicators, 6 content words,
\* 7 content detection (3, the URL check, issues no call that can fail)
PhaseOf(call) ==
    CASE call.c = "waitFor" -> 1
      [] call.c = "title" -> 2
      [] call.c = "waitForLoadState" -> 4
      [] call.c \in {"isVisible", "waitForHidden"} -> 5
      [] call.c \in {"waitForTimeout", "textContent"} -> 6
      [] OTHER -> 7

\* the first phase that fails on page p under fault f, 0 when none does
FailedPhase(p, f) ==
    CASE ~HeadingShown(p) \/ f = "waitFor" -> 1
      [] f = "title" \/ ~TitleIndicatesMentoring(p.title) -> 2
      [] ~includes(p.url, MentoringPath) -> 3
      [] f = "loadState" -> 4
      [] StuckLoading(p) -> 5
      [] f \in {"timeout", "textContent"} \/ wordCount(p) < MinWords -> 6
      [] DetectContent(p, contentSelectors).err # NoErr -> 7
      [] OTHER -> 0

\* the error each phase reports
PhaseErrors(k) ==
    CASE k = 1 -> {<<"ElementNotFound">>}
      [] k = 2 -> {<<"FailedToGetTitle", "DriverError">>, <<"TitleMismatch">>}
      [] k = 3 -> {<<"ExpectToContain">>}
      [] k = 6 -> {<<"DriverError">>, <<"InsufficientContent">>}
      [] OTHER -> {<<"DriverError">>}

\* C25: verifyPageLoaded runs its phases in one fixed order and stops at
\* the first that fails: the error is that phase's, no call of a later
\* phase is issued, and it returns normally only when no phase failed; a
\* body of fewer than MinWords words fails with the insufficient-content
\* error.
C25_PhasesInOrderFailFast ==
    last.op = "verifyPageLoaded" =>
        LET k == FailedPhase(page, last.f)
        IN  /\ \A i \in 1..(Len(last.log) - 1) :
                  PhaseOf(last.log[i]) <= PhaseOf(last.log[i + 1])
            /\ last.err = NoErr <=> k = 0
            /\ k # 0 =>
                  /\ last.err \in PhaseErrors(k)
                  /\ \A i \in 1..Len(last.log) : PhaseOf(last.log[i]) <= k
            /\ (k = 6 /\ last.f = "none") => last.err = <<"InsufficientContent">>

\* elements a card selector matches on p; a query that throws yields none
Matched(p, sel) == IF p.count[sel] = -1 THEN 0 ELSE p.count[sel]

\* C26: getMentorCount returns the largest number of elements any card
\* selector matches, a selector whose query throws contributing nothing;
\* the result is an integer >= 0 and is 0 exactly when no selector matches
\* an element (the page being open, so that its wait returns).
C26_CountIsMaximumOverSelectors ==
    (last.op = "getMentorCount" /\ last.f = "none") =>
        /\ last.err = NoErr
        /\ last.res \in Nat
        /\ \A i \in 1..Len(cardSelectors) : Matched(page, cardSelectors[i]) <= last.res
        /\ last.res > 0 =>
              \E i \in 1..Len(cardSelectors) : Matched(page, cardSelectors[i]) = last.res
        /\ last.res = 0 <=>
              \A i \in 1..Len(cardSelectors) : Matched(page, cardSelectors[i]) = 0

C26_Witness ==
    /\ last.op = "getMentorCount"
    /\ last.f = "none"
    /\ page.count[".mentor-card"] = 1
    /\ page.count[".card"] = 2
    /\ page.count[".grid > div"] = -1
    /\ last.res = 2

\* the calls of a run that scroll to or click an element
CardActs(log) == {i \in 1..Len(log) : log[i].c \in {"scrollIntoViewIfNeeded", "click"}}

\* C27: clickMentorCard(index) scrolls or clicks only when
\* 0 <= index < getMentorCount(); with a count of 0 it fails with 'No mentor
\* cards available to click' and with any other index outside the range,
\* negative ones included, with the out-of-range error, in both cases
\* without a scroll or a click.
C27_ClickOnlyInRange ==
    (last.op = "clickMentorCard" /\ last.f = "none") =>
        LET mentorCount == getMentorCount(page, "none").res
            inRange == 0 <= last.index /\ last.index < mentorCount
        IN  /\ CardActs(last.log) # {} => inRange
            /\ mentorCount = 0 => last.err = <<"NoCardsToClick">>
            /\ (mentorCount > 0 /\ ~inRange) => last.err = <<"IndexOutOfRange">>

\* C28: whenever clickMentorCard passes its range check, mentorCards.nth(index)
\* exists: the count the check uses never exceeds the number of elements
\* the mentorCards locator matches.
C28_RangeCheckedCardExists ==
    (last.op = "clickMentorCard" /\ last.f = "none") =>
        LET mentorCount == getMentorCount(page, "none").res
        IN  /\ mentorCount <= page.cards
            /\ (0 <= last.index /\ last.index < mentorCount) => NthExists(page, last.index)

\* positions of the calls of a log that are one of the given driver calls
Positions(log, calls) == {i \in 1..Len(log) : log[i].c \in calls}

\* the first selector of sels whose visibility probe succeeds on p, "" if none
FirstShown(p, sels) ==
    IF \E i \in 1..Len(sels) : Shown(p, sels[i])
    THEN sels[CHOOSE i \in 1..Len(sels) :
                  Shown(p, sels[i]) /\ \A j \in 1..(i - 1) : ~Shown(p, sels[j])]
    ELSE ""

\* C29: a searchMentors run that returns normally has made its calls in the
\* order page-load wait, search-input resolution, typing, one submit, wait
\* for the results; the submit is a click on the first search button whose
\* visibility probe succeeds if there is one and otherwise one Enter press
\* on the search input, never both and never neither.
C29_SearchStepsInOrder ==
    (last.op = "searchMentors" /\ last.err = NoErr) =>
        LET log == last.log
            fills == Positions(log, {"fill"})
            submits == Positions(log, {"click", "press"})
            input == FirstShown(page, searchSelectors)
            button == FirstShown(page, searchButtonSelectors)
        IN  /\ Cardinality(fills) = 1
            /\ Cardinality(submits) = 1
            /\ LET t == CHOOSE i \in fills : TRUE
                   s == CHOOSE i \in submits : TRUE
               IN  /\ log[1] = Call("waitForLoadState", "networkidle")
                   /\ \A i \in 2..(t - 1) : /\ log[i].c \in {"waitFor", "clear"}
                                            /\ log[i].a \in Range(searchSelectors)
                   /\ log[t] = Call("fill", input)
                   /\ log[t + 1] = Call("inputValue", input)
                   /\ t + 1 < s
                   /\ \A i \in (t + 2)..(s - 1) : /\ log[i].c = "waitFor"
                                                  /\ log[i].a \in Range(searchButtonSelectors)
                   /\ log[s] = IF button # "" THEN Call("click", button)
                               ELSE Call("press", input)
                   /\ s < Len(log)
                   /\ Positions(SubSeq(log, s + 1, Len(log)), {"$$"}) # {}
                   /\ \A i \in (s + 1)..Len(log) :
                         /\ log[i].c \in {"waitFor", "waitForHidden", "waitForTimeout", "$$"}
                         /\ log[i].a \notin Range(searchSelectors) \cup Range(searchButtonSelectors)

C29_Witness ==
    /\ last.op = "searchMentors"
    /\ last.err = NoErr
    /\ FirstShown(page, searchButtonSelectors) = searchButtonSelectors[3]
    /\ searchButtonSelectors[4] \in page.visible
    /\ \E i \in 1..Len(last.log) : last.log[i] = Call("click", searchButtonSelectors[3])

\* C30: for every TEST_ENV, the origin BasePage.goto prepends to a relative
\* URL is the urls.base of the profile getTestConfig returns for that
\* environment.
C30_GotoOriginIsProfileBase ==
    last.op = "constructor" =>
        /\ last.baseURL = getTestConfig(last.arg).urls.base
        /\ last.sent = getTestConfig(last.arg).urls.base \o MentoringPath

\* C11: isElementVisible never throws: however the wait it issues ends
\* (visible, timeout, or a failure to resolve the locator) it returns a
\* boolean, and returns true exactly when the wait succeeded.
C11_IsElementVisibleNeverThrows ==
    last.op = "isElementVisible" =>
        /\ last.err = NoErr
        /\ last.log = <<Call("waitFor", last.arg)>>
        /\ last.res \in {0, 1}
        /\ last.res = 1 <=> WaitOutcome(page, last.arg) = "visible"

C11_Witness ==
    /\ last.op = "isElementVisible"
    /\ WaitOutcome(page, last.arg) = "strict"
    /\ last.arg \in page.visible
    /\ last.err = NoErr
    /\ last.res = 0

====
